---- MODULE Spec2Model ----
\* A model of src/scripts/utils/utils.ts: the export-destination pickers,
\* Utils.idealDefaultPath, Utils.downloadFiles and Utils.waitUntil.
\*
\* JavaScript runs one synchronous segment at a time, so every action below is
\* one such segment: a call up to its first await, or the continuation of an
\* await (or of a timer tick) up to the next suspension point.
EXTENDS Integers, Sequences, FiniteSets, TLC

VARIABLES
    \* ---- Utils.downloadFiles(files, rootPath)
    files,          \* the Downloadable[] argument
    rootPath,       \* the Path argument (a Path is modelled by its string)
    pc,             \* "idle" | "mkdir" | "write" | "done" | "rejected"
    i,              \* the loop variable of downloadFiles
    pending,        \* storage promises that have been issued and not settled
    events,         \* everything the run did, in order: progress reports,
                    \* storage calls and their replies, error logs, notices
    \* ---- Utils.waitUntil(condition, timeout, interval)
    timeout,        \* the timeout argument
    interval,       \* the interval argument
    timer,          \* let timer: the wait accumulated so far
    intervalId,     \* TRUE while the setInterval timer is scheduled and not cleared
    scheduled,      \* how many times setInterval has been called
    ticks,          \* how many times the interval callback has run
    samples,        \* the values condition() has returned, in order
    resolutions,    \* the values the promise was resolved with (return true,
                    \* resolve(true), resolve(false)), in order; the first settles it
    \* ---- the pickers and idealDefaultPath
    isDesktopApp,   \* Platform.isDesktopApp
    dialog,         \* <<the picker call suspended on its native dialog>>, or <<>>
    calls           \* the calls that have returned, in order: operation,
                    \* arguments, returned value, notices shown, dialogs opened

dlVars == <<files, rootPath, pc, i, pending, events>>
waitVars == <<timeout, interval, timer, intervalId, scheduled, ticks, samples, resolutions>>
pickVars == <<isDesktopApp, dialog, calls>>
vars == <<dlVars, waitVars, pickVars>>

\* ------------------------------------------------------------------ bounds
MaxFiles == 3       \* longest Downloadable[] handed to downloadFiles
MaxTimeout == 6     \* largest timeout handed to waitUntil
NegTimeout == 1     \* timeouts down to -NegTimeout are handed to waitUntil
MaxInterval == 2    \* largest interval handed to waitUntil
MaxCalls == 2       \* picker and idealDefaultPath calls followed in one run
MaxTicks == 8       \* interval callbacks followed in one waitUntil run

\* ------------------------------------------------------------------ values
\* The JavaScript value undefined, where a field of a malformed object is read.
Undefined == "undefined"

\* Path.joinString(string).asString: the path below this one.
JoinString(path, str) == path \o "/" \o str

\* A Downloadable, as downloadFiles reads it.
Downloadable(dir, path, content, encoding) ==
    [relativeDirectory |-> dir, relativePath |-> path,
     content |-> content, encoding |-> encoding]

\* The artifacts a list is drawn from: three well-formed ones (two of them in
\* the same directory; one holding a Buffer) and three malformed ones, each
\* with one field that cannot be read.
Downloadables ==
    { Downloadable("a", "a/x", "string", "utf8"),
      Downloadable("a", "a/y", "buffer", "base64"),
      Downloadable("b", "b/z", "string", "utf8"),
      Downloadable("a", Undefined, "string", "utf8"),
      Downloadable(Undefined, "a/x", "string", "utf8"),
      Downloadable("b", "b/z", Undefined, "utf8") }

RootPaths == {"/vault/out", "/site"}

RECURSIVE SeqsUpTo(_, _)
SeqsUpTo(S, n) ==
    IF n = 0 THEN {<<>>}
    ELSE LET shorter == SeqsUpTo(S, n - 1)
         IN  shorter \cup {Append(s, e) : s \in {t \in shorter : Len(t) = n - 1}, e \in S}

\* ------------------------------------------------------------------ events
\* A wrong progress report: the index counted from one.
ProgressFromOne(idx, total, file) ==
    [type |-> "progress", idx |-> idx + 1, path |-> "Downloading: " \o file.relativePath,
     info |-> "Downloading Files", total |-> total]

\* ExportLog.progress(i, files.length, "Downloading Files", "Downloading: " + path)
Progress(idx, total, file) ==
    [type |-> "progress", idx |-> idx, path |-> "Downloading: " \o file.relativePath,
     info |-> "Downloading Files", total |-> total]

\* typeof file.content === 'string' ? file.content : file.content.toString(file.encoding)
Content(file) ==
    IF file.content = "string" THEN "text"
    ELSE IF file.content = "buffer" THEN "decoded-" \o file.encoding
    ELSE Undefined   \* undefined.toString(...) throws a TypeError

\* A storage promise: the adapter call, the artifact it is for, its arguments.
Storage(op, idx, path, data) == [op |-> op, idx |-> idx, path |-> path, data |-> data]

\* The state a synchronous segment of downloadFiles ends in.
Segment(p, idx, pend, ev) == [pc |-> p, i |-> idx, pending |-> pend, events |-> ev]

RECURSIVE Iteration(_, _, _), Catch(_, _, _, _)

\* A wrong catch: the error is thrown on, out of downloadFiles.
CatchRethrow(idx, pend, ev, error) == Segment("rejected", idx, pend, ev)

\* A wrong catch: the artifact is tried once more before it is given up.
CatchRetriesOnce(idx, pend, ev, error) ==
    LET file == files[idx + 1]
        msg  == "Failed to write file " \o file.relativePath
        again == \A p \in 1 .. Len(ev) : ~(ev[p].type = "error" /\ ev[p].idx = idx)
    IN  Iteration(IF again THEN idx ELSE idx + 1, pend,
                  ev \o << [type |-> "error", idx |-> idx, path |-> msg \o ": " \o error,
                            info |-> error, total |-> Len(files)],
                           [type |-> "notice", idx |-> idx, path |-> msg,
                            info |-> "", total |-> Len(files)] >>)

\* A wrong catch: the error is logged but no notice is shown.
CatchNoNotice(idx, pend, ev, error) ==
    LET file == files[idx + 1]
        msg  == "Failed to write file " \o file.relativePath
    IN  Iteration(idx + 1, pend,
                  Append(ev, [type |-> "error", idx |-> idx, path |-> msg \o ": " \o error,
                              info |-> error, total |-> Len(files)]))

\* catch (error) { ExportLog.error(...); new Notice(...); } and on to i + 1.
Catch(idx, pend, ev, error) ==
    LET file == files[idx + 1]
        msg  == "Failed to write file " \o file.relativePath
    IN  Iteration(idx + 1, pend,
                  ev \o << [type |-> "error", idx |-> idx, path |-> msg \o ": " \o error,
                            info |-> error, total |-> Len(files)],
                           [type |-> "notice", idx |-> idx, path |-> msg,
                            info |-> "", total |-> Len(files)] >>)

\* A wrong mkdir: after a failure the directory is made under the vault root.
MkdirFallsBackToVault(idx, pend, ev) ==
    LET file == files[idx + 1]
        failed == \E p \in 1 .. Len(ev) : ev[p].type = "error"
        root == IF failed THEN "/vault" ELSE rootPath
        call == Storage("mkdir", idx, JoinString(root, file.relativeDirectory), "")
    IN  Segment("mkdir", idx, pend \cup {call},
                Append(ev, [type |-> "mkdir", idx |-> idx, path |-> call.path,
                            info |-> "", total |-> Len(files)]))

\* A wrong mkdir: the promise is not awaited, the write is issued at once.
MkdirNotAwaited(idx, pend, ev) ==
    LET file == files[idx + 1]
        mk == Storage("mkdir", idx, JoinString(rootPath, file.relativeDirectory), "")
        wr == Storage("write", idx, JoinString(rootPath, file.relativePath), Content(file))
    IN  Segment("write", idx, pend \cup {mk, wr},
                ev \o << [type |-> "mkdir", idx |-> idx, path |-> mk.path,
                          info |-> "", total |-> Len(files)],
                         [type |-> "write", idx |-> idx, path |-> wr.path,
                          info |-> wr.data, total |-> Len(files)] >>)

\* await adapter.mkdir(dirPath): the call is issued and the run suspends.
AwaitMkdir(idx, pend, ev) ==
    LET file == files[idx + 1]
        call == Storage("mkdir", idx, JoinString(rootPath, file.relativeDirectory), "")
    IN  Segment("mkdir", idx, pend \cup {call},
                Append(ev, [type |-> "mkdir", idx |-> idx, path |-> call.path,
                            info |-> "", total |-> Len(files)]))

\* One pass of the for loop from its test up to the first await.
Iteration(idx, pend, ev) ==
    IF ~(idx < Len(files)) THEN Segment("done", idx, pend, ev)
    ELSE LET file == files[idx + 1]
         IN  IF file.relativePath = Undefined
             THEN Segment("rejected", idx, pend, ev)   \* line 199, outside the try
             ELSE LET ev1 == Append(ev, Progress(idx, Len(files), file))
                  IN  IF file.relativeDirectory = Undefined
                      THEN Catch(idx, pend, ev1, "TypeError")
                      ELSE AwaitMkdir(idx, pend, ev1)

\* A wrong write: the promise is not awaited, the loop goes on at once.
WriteNotAwaited(idx, pend, ev) ==
    LET file == files[idx + 1]
        call == Storage("write", idx, JoinString(rootPath, file.relativePath), Content(file))
    IN  Iteration(idx + 1, pend \cup {call},
                  Append(ev, [type |-> "write", idx |-> idx, path |-> call.path,
                              info |-> call.data, total |-> Len(files)]))

\* await adapter.write(filePath, content): issued and suspended on.
AwaitWrite(idx, pend, ev) ==
    LET file == files[idx + 1]
        call == Storage("write", idx, JoinString(rootPath, file.relativePath), Content(file))
    IN  Segment("write", idx, pend \cup {call},
                Append(ev, [type |-> "write", idx |-> idx, path |-> call.path,
                            info |-> call.data, total |-> Len(files)]))

\* The continuation of a fulfilled mkdir: lines 207-212 up to the await.
AfterMkdir(idx, pend, ev) ==
    IF Content(files[idx + 1]) = Undefined
    THEN Catch(idx, pend, ev, "TypeError")
    ELSE AwaitWrite(idx, pend, ev)

\* A wrong continuation: downloadFiles returns after the first written file.
AfterWriteReturns(idx, pend, ev) == Segment("done", idx + 1, pend, ev)

\* The continuation of a fulfilled write: the end of the loop body, then i++.
AfterWrite(idx, pend, ev) == Iteration(idx + 1, pend, ev)

Reply(type, call) ==
    [type |-> type, idx |-> call.idx, path |-> call.path, info |-> "", total |-> Len(files)]

Resume(seg) ==
    /\ pc' = seg.pc
    /\ i' = seg.i
    /\ pending' = seg.pending
    /\ events' = seg.events
    /\ UNCHANGED <<files, rootPath, waitVars, pickVars>>

\* ------------------------------------------------ the parts that do not run
\* Each specification runs one part of Utils; the others stay as they are here.
DownloadIdle ==
    /\ files = <<>>
    /\ rootPath = "/vault/out"
    /\ pc = "off"
    /\ i = 0
    /\ pending = {}
    /\ events = <<>>

WaitIdle ==
    /\ timeout = 0
    /\ interval = 0
    /\ timer = 0
    /\ intervalId = FALSE
    /\ scheduled = 0
    /\ ticks = 0
    /\ samples = <<"off">>
    /\ resolutions = <<>>

PickIdle ==
    /\ isDesktopApp = FALSE
    /\ dialog = <<>>
    /\ calls = <<"off">>

\* ------------------------------------------- the pickers, idealDefaultPath
\* Path.vaultPath
VaultPath == "/vault"

\* The Paths handed to the pickers as their default.
DefaultPaths == {"/vault/out/site.html", "/vault/out"}
FileNames == {"site.html", "index.html"}
\* The values Settings.exportPath holds.
ExportPaths == {"", "/old/export", "/vault/out/site.html"}

\* Path.directory: the directory part of a path, its leaf name taken off.
Directory(path) ==
    CASE path = "/vault/out/site.html" -> "/vault/out"
      [] path = "/vault/out" -> "/vault"
      [] path = "/old/export" -> "/old"
      [] OTHER -> path

\* Path.absolute(): the paths of the model are absolute but the empty one.
Absolute(path) == IF path = "" THEN VaultPath ELSE path

\* Utils.trimStart(absoluteDefaultPath.extension, ".")
Extension(path) ==
    CASE path \in {"/vault/out/site.html", "/vault/out/index.html",
                   "/vault/site.html", "/vault/index.html"} -> "html"
      [] OTHER -> ""

\* What a picker call has done when it returns.
Returned(op, defaultPath, defaultFileName, exists, result, notices, dialogs) ==
    [op |-> op, defaultPath |-> defaultPath, defaultFileName |-> defaultFileName,
     exists |-> exists, result |-> result, notices |-> notices, dialogs |-> dialogs]

\* A wrong save target: the file name joined to the default path itself.
SaveManagedNoDirectory(defaultPath, defaultFileName) ==
    LET exportPath == JoinString(defaultPath, defaultFileName)
    IN  Returned("showSaveDialog", defaultPath, defaultFileName, FALSE, exportPath,
                 <<"Exporting to " \o exportPath>>, <<>>)

\* A wrong save target: a path that an earlier call returned is not reused.
SaveManagedFreshName(defaultPath, defaultFileName) ==
    LET joined == JoinString(Directory(defaultPath), defaultFileName)
        used == \E n \in 1 .. Len(calls) : calls[n].result = joined
        exportPath == IF used THEN joined \o "-1" ELSE joined
    IN  Returned("showSaveDialog", defaultPath, defaultFileName, FALSE, exportPath,
                 <<"Exporting to " \o exportPath>>, <<>>)

\* showSaveDialog, lines 121-127: the branch without a native dialog.
SaveManaged(defaultPath, defaultFileName) ==
    LET exportPath == JoinString(Directory(defaultPath), defaultFileName)
    IN  Returned("showSaveDialog", defaultPath, defaultFileName, FALSE, exportPath,
                 <<"Exporting to " \o exportPath>>, <<>>)

\* showSelectFolderDialog, lines 147-152.
FolderManaged(defaultPath) ==
    Returned("showSelectFolderDialog", defaultPath, "", FALSE, defaultPath,
             <<"Using default folder: " \o defaultPath>>, <<>>)

\* showSelectFileDialog, lines 172-177.
FileManaged(defaultPath) ==
    Returned("showSelectFileDialog", defaultPath, "", FALSE, defaultPath,
             <<"Using default file: " \o defaultPath>>, <<>>)

\* The options showSaveDialog hands to dialog.showSaveDialog, lines 100-116.
SaveRequest(defaultPath, defaultFileName, showAllFilesOption) ==
    LET absoluteDefaultPath == JoinString(Absolute(Directory(defaultPath)), defaultFileName)
    IN  [kind |-> "showSaveDialog", defaultPath |-> absoluteDefaultPath,
         options |-> <<Extension(absoluteDefaultPath)>>
                     \o (IF showAllFilesOption THEN <<"*">> ELSE <<>>)]

\* The options handed to dialog.showOpenDialog, lines 139-142 and 164-167.
OpenRequest(defaultPath, property) ==
    [kind |-> "showOpenDialog", defaultPath |-> defaultPath, options |-> <<property>>]

\* A wrong result: a cancelled save dialog falls back to the vault root.
SaveResultFallsBack(result) ==
    IF ~result.canceled /\ result.filePath # "" THEN result.filePath ELSE VaultPath

\* Lines 118-120 and 129: what showSaveDialog returns for the dialog's result.
SaveResult(result) ==
    IF ~result.canceled /\ result.filePath # "" THEN result.filePath ELSE Undefined

\* Lines 144-146, 169-171 and 154, 179: the same for the open dialogs.
OpenResult(result) ==
    IF ~result.canceled /\ Len(result.filePaths) > 0 THEN result.filePaths[1] ELSE Undefined

\* A wrong idealDefaultPath: the path is not tested for existence.
IdealDefaultPathNoExists(exportPath, exists) ==
    IF exportPath # "" THEN Directory(exportPath) ELSE VaultPath

\* idealDefaultPath, lines 182-192: exportPath is Settings.exportPath and
\* exists is what lastPath.exists answers.
IdealDefaultPathOf(exportPath, exists) ==
    IF exportPath # "" /\ exists THEN Directory(exportPath) ELSE VaultPath

InitPick ==
    /\ DownloadIdle
    /\ WaitIdle
    /\ isDesktopApp \in BOOLEAN
    /\ dialog = <<>>
    /\ calls = <<>>

CanCall == dialog = <<>> /\ Len(calls) < MaxCalls

Return(call) ==
    /\ calls' = Append(calls, call)
    /\ dialog' = <<>>
    /\ UNCHANGED <<isDesktopApp, dlVars, waitVars>>

Suspend(op, defaultPath, defaultFileName, request) ==
    /\ dialog' = <<[op |-> op, defaultPath |-> defaultPath,
                     defaultFileName |-> defaultFileName, request |-> request]>>
    /\ UNCHANGED <<calls, isDesktopApp, dlVars, waitVars>>

ShowSaveDialog ==
    /\ CanCall
    /\ \E defaultPath \in DefaultPaths, defaultFileName \in FileNames,
          showAllFilesOption \in BOOLEAN :
          IF isDesktopApp
          THEN Suspend("showSaveDialog", defaultPath, defaultFileName,
                       SaveRequest(defaultPath, defaultFileName, showAllFilesOption))
          ELSE Return(SaveManaged(defaultPath, defaultFileName))

ShowSelectFolderDialog ==
    /\ CanCall
    /\ \E defaultPath \in DefaultPaths :
          IF isDesktopApp
          THEN Suspend("showSelectFolderDialog", defaultPath, "",
                       OpenRequest(defaultPath, "openDirectory"))
          ELSE Return(FolderManaged(defaultPath))

ShowSelectFileDialog ==
    /\ CanCall
    /\ \E defaultPath \in DefaultPaths :
          IF isDesktopApp
          THEN Suspend("showSelectFileDialog", defaultPath, "",
                       OpenRequest(defaultPath, "openFile"))
          ELSE Return(FileManaged(defaultPath))

\* The user answers the save dialog: cancelled or not, with or without a path.
SaveDialogReply ==
    /\ dialog # <<>>
    /\ dialog[1].op = "showSaveDialog"
    /\ \E canceled \in BOOLEAN, filePath \in {"", "/picked/page.html"} :
          LET result == [canceled |-> canceled, filePath |-> filePath]
          IN  Return(Returned(dialog[1].op, dialog[1].defaultPath,
                              dialog[1].defaultFileName, FALSE, SaveResult(result), <<>>,
                              <<[request |-> dialog[1].request, result |-> result]>>))

\* The user answers an open dialog.
OpenDialogReply ==
    /\ dialog # <<>>
    /\ dialog[1].op # "showSaveDialog"
    /\ \E canceled \in BOOLEAN,
          filePaths \in {<<>>, <<"/picked">>, <<"/picked", "/other">>} :
          LET result == [canceled |-> canceled, filePaths |-> filePaths]
          IN  Return(Returned(dialog[1].op, dialog[1].defaultPath,
                              dialog[1].defaultFileName, FALSE, OpenResult(result), <<>>,
                              <<[request |-> dialog[1].request, result |-> result]>>))

IdealDefaultPath ==
    /\ CanCall
    /\ \E exportPath \in ExportPaths, exists \in BOOLEAN :
          Return(Returned("idealDefaultPath", exportPath, "", exists,
                          IdealDefaultPathOf(exportPath, exists), <<>>, <<>>))

NextPick ==
    \/ ShowSaveDialog
    \/ ShowSelectFolderDialog
    \/ ShowSelectFileDialog
    \/ SaveDialogReply
    \/ OpenDialogReply
    \/ IdealDefaultPath

SpecPick == InitPick /\ [][NextPick]_vars

\* ------------------------------------------------------ pickers: the claims
CallsOf(ops) == {n \in 1 .. Len(calls) : calls[n].op \in ops}
Pickers == {"showSaveDialog", "showSelectFolderDialog", "showSelectFileDialog"}
NoticePrefix(op) ==
    CASE op = "showSaveDialog" -> "Exporting to "
      [] op = "showSelectFolderDialog" -> "Using default folder: "
      [] OTHER -> "Using default file: "

\* C9: idealDefaultPath returns the directory of the last-used export path
\* when that path is non-empty and exists, the vault root for every other
\* input, and always returns a Path.
C9_IdealDefaultPath ==
    \A n \in CallsOf({"idealDefaultPath"}) :
        LET c == calls[n]
        IN  /\ (c.defaultPath # "" /\ c.exists) => c.result = Directory(c.defaultPath)
            /\ ~(c.defaultPath # "" /\ c.exists) => c.result = VaultPath
            /\ c.result # Undefined

\* idealDefaultPath has answered for a stale path and for an existing one.
C9_Witness ==
    \E m, n \in CallsOf({"idealDefaultPath"}) :
        /\ calls[m].defaultPath = "/old/export" /\ ~calls[m].exists
        /\ calls[m].result = VaultPath
        /\ calls[n].defaultPath = "/old/export" /\ calls[n].exists
        /\ calls[n].result = "/old"

\* Each call without a native dialog showed one notice, stating what it returned.
OneNoticeOfResult(c) ==
    /\ Len(c.notices) = 1
    /\ c.notices[1] = NoticePrefix(c.op) \o c.result

\* C10 as stated: without a native dialog every picker returns the default
\* Path it was handed and shows exactly one notice stating the returned path.
C10_ReturnsDefaultPath ==
    ~isDesktopApp =>
        \A n \in CallsOf(Pickers) :
            /\ calls[n].result = calls[n].defaultPath
            /\ OneNoticeOfResult(calls[n])

\* C10, amended: without a native dialog showSaveDialog returns the directory
\* of the default Path joined with the default file name, showSelectFileDialog
\* and showSelectFolderDialog return the default Path they were handed, and
\* each call shows exactly one notice stating the returned path.
C10_ManagedDefaults ==
    ~isDesktopApp =>
        \A n \in CallsOf(Pickers) :
            LET c == calls[n]
            IN  /\ c.op = "showSaveDialog" =>
                      c.result = JoinString(Directory(c.defaultPath), c.defaultFileName)
                /\ c.op # "showSaveDialog" => c.result = c.defaultPath
                /\ OneNoticeOfResult(c)

\* Without a native dialog, a save target was picked that is not the default
\* Path, and a folder was picked.
C10_Witness ==
    /\ ~isDesktopApp
    /\ \E m, n \in CallsOf(Pickers) :
          /\ calls[m].op = "showSaveDialog" /\ calls[m].result # calls[m].defaultPath
          /\ calls[n].op = "showSelectFolderDialog"

\* Two calls of the same picker.
SamePicker(m, n) == m \in CallsOf(Pickers) /\ n \in CallsOf(Pickers) /\ calls[m].op = calls[n].op

Cancelled(c) == c.dialogs[1].result.canceled
Chosen(c) ==
    IF c.op = "showSaveDialog" THEN c.dialogs[1].result.filePath
    ELSE IF c.dialogs[1].result.filePaths = <<>> THEN ""
    ELSE c.dialogs[1].result.filePaths[1]

\* C12: with a native dialog, each picker opens exactly one dialog; a
\* cancelled dialog makes it return undefined, a confirmed selection makes it
\* return the chosen path, and it returns nothing else.
C12_CancelOrChosen ==
    isDesktopApp =>
        \A n \in CallsOf(Pickers) :
            LET c == calls[n]
            IN  /\ Len(c.dialogs) = 1
                /\ Cancelled(c) => c.result = Undefined
                /\ (~Cancelled(c) /\ Chosen(c) # "") => c.result = Chosen(c)
                /\ c.result \in {Undefined, Chosen(c)}
                /\ c.notices = <<>>

\* A save dialog was cancelled and an open dialog was confirmed.
C12_Witness ==
    /\ isDesktopApp
    /\ \E m, n \in CallsOf(Pickers) :
          /\ calls[m].op = "showSaveDialog" /\ Cancelled(calls[m])
          /\ calls[m].result = Undefined
          /\ calls[n].op = "showSelectFolderDialog" /\ ~Cancelled(calls[n])
          /\ calls[n].result = "/picked"

\* --------------------------------------------------------------- waitUntil
\* A wrong timeout test: the accumulated wait compared with the interval.
TimedOutOnInterval(t) == t >= interval

\* A wrong timeout test: the timeout has to be exceeded.
TimedOutStrictly(t) == t > timeout

\* if (timer >= timeout)
TimedOut(t) == t >= timeout

\* What one synchronous segment of waitUntil leaves behind.
Waiting(t, id, resolved) == [timer |-> t, intervalId |-> id, resolved |-> resolved]

\* A wrong callback: the timer is not cleared when the promise is resolved.
CallbackNoClear(c, t) ==
    IF c THEN Waiting(t, TRUE, <<TRUE>>)
    ELSE IF TimedOut(t + interval) THEN Waiting(t + interval, TRUE, <<FALSE>>)
    ELSE Waiting(t + interval, TRUE, <<>>)

\* A wrong callback: the timeout is tested before condition() is looked at.
CallbackTimeoutFirst(c, t) ==
    IF TimedOut(t + interval) THEN Waiting(t + interval, FALSE, <<FALSE>>)
    ELSE IF c THEN Waiting(t + interval, FALSE, <<TRUE>>)
    ELSE Waiting(t + interval, intervalId, <<>>)

\* A wrong callback: the wait is not accumulated in timer.
CallbackForgetsTimer(c, t) ==
    IF c THEN Waiting(t, FALSE, <<TRUE>>)
    ELSE IF TimedOut(t + interval) THEN Waiting(t, FALSE, <<FALSE>>)
    ELSE Waiting(t, intervalId, <<>>)

\* The setInterval callback, lines 227-238, with c the value of condition().
Callback(c, t) ==
    IF c THEN Waiting(t, FALSE, <<TRUE>>)
    ELSE IF TimedOut(t + interval) THEN Waiting(t + interval, FALSE, <<FALSE>>)
    ELSE Waiting(t + interval, intervalId, <<>>)

\* A wrong entry: the timer is scheduled whatever condition() returned.
EntryAlwaysPolls(c) ==
    [timer |-> 0, intervalId |-> TRUE, scheduled |-> 1,
     resolved |-> IF c THEN <<TRUE>> ELSE <<>>]

\* Lines 223-226 and the setInterval call, with c the value of condition().
Entry(c) ==
    IF c THEN [timer |-> 0, intervalId |-> FALSE, scheduled |-> 0, resolved |-> <<TRUE>>]
    ELSE [timer |-> 0, intervalId |-> TRUE, scheduled |-> 1, resolved |-> <<>>]

InitWait ==
    /\ DownloadIdle
    /\ PickIdle
    /\ timeout \in (0 - NegTimeout) .. MaxTimeout
    /\ interval \in 0 .. MaxInterval
    /\ timer = 0
    /\ intervalId = FALSE
    /\ scheduled = 0
    /\ ticks = 0
    /\ samples = <<>>
    /\ resolutions = <<>>

\* The call of waitUntil: condition() is sampled once, then the timer is set.
WaitUntil ==
    /\ samples = <<>>
    /\ \E c \in BOOLEAN :
          LET e == Entry(c)
          IN  /\ samples' = <<c>>
              /\ timer' = e.timer
              /\ intervalId' = e.intervalId
              /\ scheduled' = e.scheduled
              /\ resolutions' = e.resolved
    /\ UNCHANGED <<timeout, interval, ticks, dlVars, pickVars>>

\* The timer fires, interval after the last time, as long as it is not cleared.
Tick ==
    /\ intervalId
    /\ ticks < MaxTicks
    /\ \E c \in BOOLEAN :
          LET w == Callback(c, timer)
          IN  /\ samples' = Append(samples, c)
              /\ timer' = w.timer
              /\ intervalId' = w.intervalId
              /\ resolutions' = resolutions \o w.resolved
    /\ ticks' = ticks + 1
    /\ UNCHANGED <<timeout, interval, scheduled, dlVars, pickVars>>

NextWait == WaitUntil \/ Tick

SpecWait == InitWait /\ [][NextWait]_vars

\* ----------------------------------------------------- waitUntil: the claims
Started == samples # <<>> /\ samples[1] \in BOOLEAN
Resolved == resolutions # <<>>
NeverTrue == Started /\ \A n \in 1 .. Len(samples) : samples[n] = FALSE
\* condition() was first true at the k-th tick (samples[1] is the call's own).
FirstTrueAtTick(k) ==
    /\ Started /\ Len(samples) > k
    /\ samples[k + 1] = TRUE
    /\ \A n \in 1 .. k : samples[n] = FALSE

\* C5: while the predicate has never been true, the promise is resolved, with
\* false, exactly from the first tick n with n * interval >= timeout: it is
\* resolved once such a tick has run, and not at any tick before it.
C5_TimesOutAtFirstTickPastTimeout ==
    NeverTrue =>
        /\ Resolved =>
              /\ resolutions = <<FALSE>>
              /\ ticks >= 1
              /\ ticks * interval >= timeout
              /\ \A n \in 1 .. (ticks - 1) : n * interval < timeout
        /\ (ticks >= 1 /\ ticks * interval >= timeout) => Resolved

\* With timeout = 2 * interval the promise was resolved false at the second tick.
C5_Witness ==
    /\ NeverTrue /\ interval > 0 /\ timeout = 2 * interval
    /\ resolutions = <<FALSE>> /\ ticks = 2

\* C6: a predicate that is false at the call and first true at the k-th tick,
\* with timeout > k * interval, resolves the promise to true at that tick; and
\* as long as the predicate has been false and the next tick is still within
\* the timeout, the promise is not resolved (so never to false).
C6_TrueWithinTimeout ==
    /\ \A k \in 1 .. MaxTicks :
          (FirstTrueAtTick(k) /\ timeout > k * interval) =>
              /\ resolutions = <<TRUE>>
              /\ ticks = k
    /\ (NeverTrue /\ timeout > (ticks + 1) * interval) => ~Resolved

\* The predicate was first true at the third tick and the promise is resolved.
C6_Witness ==
    /\ FirstTrueAtTick(3) /\ interval > 0 /\ timeout > 3 * interval
    /\ resolutions = <<TRUE>>

\* C7: when the predicate is true at the call, it has been evaluated exactly
\* once, the result is true and setInterval has not been called, whatever
\* timeout and interval are.
C7_TrueAtCall ==
    (Started /\ samples[1] = TRUE) =>
        /\ samples = <<TRUE>>
        /\ resolutions = <<TRUE>>
        /\ scheduled = 0
        /\ ~intervalId
        /\ ticks = 0

\* waitUntil has returned true at once, with a timeout and an interval.
C7_Witness ==
    /\ Started /\ samples[1] = TRUE /\ resolutions = <<TRUE>>
    /\ timeout > 0 /\ interval > 0

\* C8: once the promise is resolved the timer is cleared and the promise has
\* been resolved exactly once, and from then on the predicate is not evaluated
\* and the promise is not resolved again.
C8_NoLingeringTimer ==
    /\ [](Resolved => (~intervalId /\ Len(resolutions) = 1))
    /\ [][Resolved => (samples' = samples /\ resolutions' = resolutions
                         /\ ticks' = ticks)]_vars

\* The promise was resolved at the second tick or later and the timer is cleared.
C8_Witness == Resolved /\ ticks >= 2 /\ ~intervalId /\ timeout > interval

\* ----------------------------------------------------------- downloadFiles
InitDownload ==
    /\ WaitIdle
    /\ PickIdle
    /\ files \in SeqsUpTo(Downloadables, MaxFiles)
    /\ rootPath \in RootPaths
    /\ pc = "idle"
    /\ i = 0
    /\ pending = {}
    /\ events = <<>>

\* The call: let i = 0 and the first synchronous segment.
DownloadFiles ==
    /\ pc = "idle"
    /\ Resume(Iteration(0, {}, <<>>))

MkdirResolve ==
    /\ pc = "mkdir"
    /\ \E call \in pending :
          /\ call.op = "mkdir" /\ call.idx = i
          /\ Resume(AfterMkdir(i, pending \ {call}, Append(events, Reply("mkdirOk", call))))

MkdirReject ==
    /\ pc = "mkdir"
    /\ \E call \in pending :
          /\ call.op = "mkdir" /\ call.idx = i
          /\ Resume(Catch(i, pending \ {call}, Append(events, Reply("mkdirFailed", call)),
                          "mkdir failed"))

WriteResolve ==
    /\ pc = "write"
    /\ \E call \in pending :
          /\ call.op = "write" /\ call.idx = i
          /\ Resume(AfterWrite(i, pending \ {call}, Append(events, Reply("writeOk", call))))

WriteReject ==
    /\ pc = "write"
    /\ \E call \in pending :
          /\ call.op = "write" /\ call.idx = i
          /\ Resume(Catch(i, pending \ {call}, Append(events, Reply("writeFailed", call)),
                          "write failed"))

NextDownload ==
    \/ DownloadFiles
    \/ MkdirResolve
    \/ MkdirReject
    \/ WriteResolve
    \/ WriteReject

SpecDownload == InitDownload /\ [][NextDownload]_vars

\* ------------------------------------------------- downloadFiles: the claims
N == Len(files)
Indices == 0 .. (N - 1)
Positions == 1 .. Len(events)
At(type, idx) == {p \in Positions : events[p].type = type /\ events[p].idx = idx}
Of(type) == {p \in Positions : events[p].type = type}
Ended == pc \in {"done", "rejected"}
Calls == Of("mkdir") \cup Of("write")
Failures == Of("mkdirFailed") \cup Of("writeFailed")

\* Every field downloadFiles reads of the artifact can be read.
WellFormed(file) ==
    /\ file.relativePath # Undefined
    /\ file.relativeDirectory # Undefined
    /\ file.content # Undefined

\* The run's only failure of any kind is the write of artifact k.
OnlyWriteFails(k) ==
    /\ \A j \in 1 .. N : WellFormed(files[j])
    /\ At("writeFailed", k) # {}
    /\ Failures = At("writeFailed", k)

\* C1: when a run has ended in which the write of exactly one artifact k failed
\* and nothing else did, a write was attempted for every artifact (those after
\* k too) and the run left exactly one error-log entry and one notice, both
\* naming k's relative path.
C1_FailureIsolated ==
    \A k \in Indices :
        (Ended /\ OnlyWriteFails(k)) =>
            /\ pc = "done"
            /\ \A j \in Indices : Cardinality(At("write", j)) = 1
            /\ Cardinality(Of("error")) = 1
            /\ Cardinality(Of("notice")) = 1
            /\ \A p \in Of("error") :
                  events[p].path = "Failed to write file " \o files[k + 1].relativePath
                                    \o ": write failed"
            /\ \A p \in Of("notice") :
                  events[p].path = "Failed to write file " \o files[k + 1].relativePath

\* A three-artifact run has ended whose only failure was the write of the
\* middle artifact.
C1_Witness == pc = "done" /\ N = 3 /\ OnlyWriteFails(1)

\* The relative path of every artifact of the list can be read.
PathsReadable == \A j \in 1 .. N : files[j].relativePath # Undefined

\* C2: whatever the storage does, the progress sink is called with
\* currentIndex 0, 1, 2, ... in this order and total = N > 0, the call for
\* index j comes before the mkdir and the write of artifact j, and a run that
\* has completed has made exactly N calls.
C2_ProgressOrdered ==
    PathsReadable =>
        /\ \A p \in Of("progress") :
              /\ events[p].idx = Cardinality({q \in Of("progress") : q < p})
              /\ events[p].idx \in Indices
              /\ events[p].total = N /\ events[p].total > 0
        /\ \A c \in Calls : \E p \in At("progress", events[c].idx) : p < c
        /\ Cardinality(Of("progress")) <= N
        /\ pc # "rejected"
        /\ pc = "done" => Cardinality(Of("progress")) = N

\* A three-artifact run has completed in which a mkdir and a write failed.
C2_Witness ==
    /\ pc = "done" /\ N = 3 /\ PathsReadable
    /\ Of("mkdirFailed") # {} /\ Of("writeFailed") # {}

\* The reply to the storage call at position c, if it has come.
Replies(c) ==
    {r \in Positions :
        /\ r > c
        /\ events[r].idx = events[c].idx
        /\ events[r].type \in (IF events[c].type = "mkdir"
                                THEN {"mkdirOk", "mkdirFailed"}
                                ELSE {"writeOk", "writeFailed"})}

\* C3: at most one storage operation is outstanding; a storage call is issued
\* only after every earlier one has been replied to; and the calls are issued
\* in list order, each artifact's write at most once.
C3_Sequential ==
    /\ Cardinality(pending) <= 1
    /\ \A c, d \in Calls :
          c < d =>
            /\ \E r \in Replies(c) : r < d
            /\ events[c].idx <= events[d].idx
            /\ (events[c].type = "write" /\ events[d].type = "write")
                  => events[c].idx < events[d].idx

\* A run has written three artifacts one after the other.
C3_Witness == pc = "done" /\ N = 3 /\ Cardinality(Of("writeOk")) = 3

\* An artifact with a field that downloadFiles cannot read.
Malformed == {j \in Indices : ~WellFormed(files[j + 1])}

\* C4: an unexpected error while artifact k is processed is recovered like a
\* write failure: the run never ends with the error thrown out of
\* downloadFiles, and a completed run has logged the error, shown a notice
\* naming the artifact and gone on to every later artifact.
C4_UnexpectedRecovered ==
    /\ pc # "rejected"
    /\ pc = "done" =>
          \A k \in Malformed :
              /\ At("error", k) # {} /\ At("notice", k) # {}
              /\ \A j \in Indices : j > k => At("progress", j) # {}
AllWellFormed == \A j \in 1 .. N : WellFormed(files[j])

\* C13: every mkdir of a run targets the run's rootPath joined with the
\* artifact's relative directory and every write the same rootPath joined with
\* the artifact's relative path, before and after any failure.
C13_RootFixed ==
    /\ \A p \in Of("mkdir") :
          events[p].path = JoinString(rootPath, files[events[p].idx + 1].relativeDirectory)
    /\ \A p \in Of("write") :
          events[p].path = JoinString(rootPath, files[events[p].idx + 1].relativePath)
    /\ \A call \in pending :
          call.path = JoinString(rootPath,
                                 IF call.op = "mkdir"
                                 THEN files[call.idx + 1].relativeDirectory
                                 ELSE files[call.idx + 1].relativePath)

\* The first artifact's mkdir failed and the third artifact was written.
C13_Witness ==
    /\ pc = "done" /\ N = 3
    /\ At("mkdirFailed", 0) # {} /\ At("writeOk", 2) # {}

\* The events that end the attempt of an artifact in failure.
FailedAt(j) == At("mkdirFailed", j) \cup At("writeFailed", j) \cup At("error", j)

\* C14: each artifact gets at most one mkdir call and at most one write call,
\* and no storage call is made for an artifact after its attempt has failed.
C14_NoRetry ==
    \A j \in Indices :
        /\ Cardinality(At("mkdir", j)) <= 1
        /\ Cardinality(At("write", j)) <= 1
        /\ \A f \in FailedAt(j), c \in At("mkdir", j) \cup At("write", j) : c < f

\* A run has completed in which the first artifact's write and the second
\* artifact's mkdir failed.
C14_Witness ==
    /\ pc = "done" /\ N >= 2
    /\ At("writeFailed", 0) # {} /\ At("mkdirFailed", 1) # {}

\* C16: a write is issued only after the mkdir of the same artifact was issued
\* and fulfilled; after a rejected mkdir no write is issued for the artifact,
\* the error is logged and the notice shown, and the next artifact follows.
C16_MkdirBeforeWrite ==
    /\ \A w \in Of("write") :
          \E m \in At("mkdir", events[w].idx), r \in At("mkdirOk", events[w].idx) :
              m < r /\ r < w
    /\ \A f \in Of("mkdirFailed") :
          LET j == events[f].idx
          IN  /\ At("write", j) = {}
              /\ Len(events) >= f + 2
              /\ events[f + 1].type = "error" /\ events[f + 1].idx = j
              /\ events[f + 2].type = "notice" /\ events[f + 2].idx = j
              /\ Len(events) >= f + 3 =>
                    (events[f + 3].type = "progress" /\ events[f + 3].idx = j + 1)

\* The first artifact's mkdir was rejected and the second artifact was written.
C16_Witness ==
    /\ pc = "done" /\ N = 2
    /\ At("mkdirFailed", 0) # {} /\ At("writeOk", 1) # {}

\* The artifacts whose mkdir or write was rejected.
F == {j \in Indices : At("mkdirFailed", j) \cup At("writeFailed", j) # {}}

\* C18: the error-log entries and the notices are as many as the artifacts
\* whose mkdir or write failed; each failed artifact is named by exactly one
\* entry and one notice, both before the next artifact's progress report; an
\* artifact that did not fail has neither.
C18_OneLogAndNoticePerFailure ==
    AllWellFormed =>
        /\ Cardinality(Of("error")) = Cardinality(F)
        /\ Cardinality(Of("notice")) = Cardinality(F)
        /\ \A j \in Indices :
              /\ Cardinality(At("error", j)) = (IF j \in F THEN 1 ELSE 0)
              /\ Cardinality(At("notice", j)) = (IF j \in F THEN 1 ELSE 0)
              /\ \A p \in At("notice", j) :
                    events[p].path = "Failed to write file " \o files[j + 1].relativePath
              /\ \A p \in At("error", j) :
                    events[p].path \in
                        {"Failed to write file " \o files[j + 1].relativePath \o ": " \o cause :
                            cause \in {"mkdir failed", "write failed"}}
              /\ \A p \in At("error", j) \cup At("notice", j), q \in At("progress", j + 1) :
                    p < q

\* A run of three well-formed artifacts has completed, two of them failed.
C18_Witness ==
    /\ pc = "done" /\ N = 3 /\ AllWellFormed
    /\ Cardinality(F) = 2 /\ Of("writeOk") # {}
\* ---------------------------------------- downloadFiles: every call replies
\* The storage replies to every call it is handed, and the call of
\* downloadFiles itself is made: no step that can be taken is put off forever.
SpecDownloadFair == InitDownload /\ [][NextDownload]_vars /\ WF_vars(NextDownload)

\* C17: when every storage call is replied to, downloadFiles completes whatever
\* fails; it never ends with an error thrown; and when it has completed, i has
\* run through the whole list, every artifact was reported and nothing is
\* still outstanding.
C17_Completes ==
    /\ PathsReadable => <>(pc = "done")
    /\ [](PathsReadable =>
            /\ pc # "rejected"
            /\ pc = "done" =>
                  /\ i = N
                  /\ pending = {}
                  /\ \A j \in Indices : At("progress", j) # {}
                  /\ \A j \in Indices : At("writeOk", j) \cup FailedAt(j) # {})

\* A run of three artifacts has completed after the last artifact's write failed.
C17_Witness ==
    /\ pc = "done" /\ N = 3 /\ i = 3
    /\ At("writeOk", 0) # {} /\ At("writeOk", 1) # {} /\ At("writeFailed", 2) # {}
\* ------------------------------- downloadFiles over an idempotent mkdir
\* A wrong filesystem: a directory made earlier is not recognised, so making
\* it again can fail.
DirectoryForgotten(path) == FALSE

\* The filesystem collaborator's createDirectoryRecursive is idempotent: a
\* directory that an earlier mkdir of the run has made exists.
DirectoryExists(path) == \E p \in Of("mkdirOk") : events[p].path = path

\* adapter.mkdir rejects (permission denied, disk full, ...), which it does
\* not do only because the directory is already there.
MkdirRejectAbsent ==
    /\ pc = "mkdir"
    /\ \E call \in pending :
          /\ call.op = "mkdir" /\ call.idx = i
          /\ ~DirectoryExists(call.path)
          /\ Resume(Catch(i, pending \ {call}, Append(events, Reply("mkdirFailed", call)),
                          "mkdir failed"))

NextDownloadFs ==
    \/ DownloadFiles
    \/ MkdirResolve
    \/ MkdirRejectAbsent
    \/ WriteResolve
    \/ WriteReject

SpecDownloadFs == InitDownload /\ [][NextDownloadFs]_vars

\* The artifacts whose directory an earlier mkdir of the run had made when
\* their own mkdir was issued.
Remade ==
    {j \in Indices :
        \E m \in At("mkdir", j), r \in Of("mkdirOk") :
            r < m /\ events[r].path = events[m].path}

\* C15: the mkdir of a directory that the run has already made is not
\* rejected; the artifact's write is issued when it is fulfilled; and unless
\* that write itself is rejected, no error is logged and no notice shown for
\* the artifact, and it is written when the run is done.
C15_MkdirIdempotent ==
    \A j \in Remade :
        WellFormed(files[j + 1]) =>
            /\ At("mkdirFailed", j) = {}
            /\ At("mkdirOk", j) # {} => At("write", j) # {}
            /\ At("writeFailed", j) = {} =>
                  /\ At("error", j) = {} /\ At("notice", j) = {}
                  /\ pc = "done" => At("writeOk", j) # {}

\* Two artifacts of the same directory were written one after the other.
C15_Witness ==
    /\ pc = "done" /\ N = 2 /\ Remade = {1}
    /\ files[1].relativePath = "a/x" /\ files[2].relativePath = "a/y"
    /\ At("writeOk", 0) # {} /\ At("writeOk", 1) # {}
    /\ Of("error") = {} /\ Of("notice") = {}
\* ------------------------------------------- waitUntil: the timer keeps firing
\* waitUntil is called, and a timer that is scheduled and not cleared fires.
SpecWaitFair ==
    InitWait /\ [][NextWait]_vars /\ WF_vars(WaitUntil) /\ WF_vars(Tick)

\* C19: a predicate found true at a tick resolves the promise to true, also
\* at the tick where the wait reaches the timeout; and the promise is resolved
\* to false only at a tick whose own sample of the predicate was false.
C19_PredicateBeforeTimeout ==
    /\ \A k \in 1 .. MaxTicks : FirstTrueAtTick(k) => resolutions = <<TRUE>>
    /\ (Resolved /\ resolutions[1] = FALSE) =>
          /\ ticks >= 1
          /\ Len(samples) = ticks + 1
          /\ samples[Len(samples)] = FALSE

\* The predicate became true at the second tick, the one that reaches the
\* timeout, and the promise was resolved to true.
C19_Witness ==
    /\ FirstTrueAtTick(2) /\ interval > 0
    /\ timeout > interval /\ 2 * interval >= timeout
    /\ resolutions = <<TRUE>>

\* max(1, ceil(timeout / interval)), for interval > 0.
TickBound ==
    IF timeout <= interval THEN 1 ELSE (timeout + interval - 1) \div interval

\* C20: with interval > 0 the promise is eventually resolved, and no more
\* than max(1, ceil(timeout / interval)) ticks are run for it; and when the
\* predicate was false at the call, it is not resolved before the first tick,
\* also when timeout <= 0 or timeout < interval.
C20_ResolvesWithinBound ==
    /\ (interval > 0) => <>Resolved
    /\ [](interval > 0 => ticks <= TickBound)
    /\ []((Started /\ samples[1] = FALSE /\ Resolved) => ticks >= 1)

\* With timeout <= 0 the promise was resolved to false at the first tick.
C20_Witness ==
    /\ timeout <= 0 /\ interval > 0
    /\ Started /\ samples[1] = FALSE
    /\ resolutions = <<FALSE>> /\ ticks = 1
====
